---- MODULE Spec2Model ----
(***************************************************************************)
(* NEXUS multi-agent video pipeline (ViraLoop backend).                    *)
(*                                                                         *)
(* The model follows backend/agenci/orkiestrator.py: the LangGraph state   *)
(* graph  strateg -> pisarz -> [rezyser_glosu + producent_wizualny] ->     *)
(* recenzent -> compositor | pisarz (retry) | koniec_z_bledem, the state   *)
(* record StanNEXUS with its reducers, and the driver generuj_wideo.       *)
(*                                                                         *)
(* A second specification, SpecZadanie, runs the same graph inside the     *)
(* Celery task of backend/zadania/generacja.py: progress events on Redis,  *)
(* the retry of the task, the time limits of celery_app.py and the revoke  *)
(* of api/trasy/zadania.py.                                                *)
(*                                                                         *)
(* Money is counted in units of 0.040 USD, the price of one image.        *)
(* Step outputs are modelled by their presence; error messages by one      *)
(* token per step and way of failing (returned record or raised).          *)
(***************************************************************************)
EXTENDS Integers, Sequences, FiniteSets, TLC

VARIABLES
    stan,       \* StanNEXUS: the graph state of the session
    wezel,      \* node the engine runs next ("END" / "wyjatek" when it stopped)
    galezie,    \* position inside producja_rownolegle: brak | uruchomione | scalone
    wyniki,     \* results of asyncio.gather, in declared branch order
    wynik,      \* dictionary returned by OrkiestratorNEXUS.generuj_wideo
    ostatni,    \* history: node entered last
    poprz,      \* history: stan as it was before the node entered last
    oceny,      \* history: wynik_ogolny of every review the reviewer returned
    awarie,     \* history: number of step invocations that failed
    sumaDelt,   \* history: sum of the cost deltas the invoked steps reported
    kolejnosc,  \* history: branches of the fan-out in the order they finished
    migawka,    \* checkpoint the MemorySaver of the session committed last
    zadanie,    \* Celery state of generuj_wideo_task ("brak": called directly)
    proba,      \* self.request.retries of the running task
    punkt,      \* history: last checkpoint of the attempt that was interrupted
    kanal,      \* event published last on nexus:progress:{sesja_id}
    zapis,      \* event stored under nexus:stan:{sesja_id}
    awarieKanalu, \* history: number of failures opublikuj_postep swallowed
    obs,        \* position of the WebSocket handler websocket_postep
    obsStan,    \* event that handler sent last to its client
    powod,      \* history: what ended the attempt that ran last
    pamiec,     \* MemorySaver of the shared orchestrator: thread_id -> checkpoint
    katalogi,   \* working directories: name -> session whose files it holds
    zwrocone,   \* what generuj_wideo returned to each of the concurrent callers
    solo        \* history: the checkpoint each session has when it runs alone

gvars == <<stan, wezel, galezie, wyniki, wynik, ostatni, poprz, oceny, awarie, sumaDelt,
          kolejnosc, migawka>>
kvars == <<kanal, zapis, awarieKanalu, obs, obsStan>>
zvars == <<zadanie, proba, punkt, powod, kvars>>
svars == <<pamiec, katalogi, zwrocone, solo>>
vars == <<gvars, zvars, svars>>

----------------------------------------------------------------------------
(* Configuration (konfiguracja.py) and bounds                              *)

MAKS_PONOWNYCH_PROB == 3
PROG_JAKOSCI == 60
KosztObrazu == 1

\* largest token cost one LLM / TTS call reports
MaxKoszt == 1
\* largest number of scene images the visual producer obtains
MaxObrazow == 1

\* wynik_ogolny values the reviewing model may answer with
Wyniki == {PROG_JAKOSCI - 1, PROG_JAKOSCI, 90}
Koszty == 1..MaxKoszt

----------------------------------------------------------------------------
(* StanNEXUS and the LangGraph reducers                                    *)

BrakOceny == [jest |-> FALSE, wynik_ogolny |-> 0, zatwierdzone |-> FALSE]
BrakWizualiow == [jest |-> FALSE, liczba_obrazow |-> 0]

\* stan_poczatkowy of generuj_wideo
stan_poczatkowy ==
    [ plan_tresci |-> FALSE,
      scenariusz |-> FALSE,
      audio |-> FALSE,
      wizualia |-> BrakWizualiow,
      ocena_jakosci |-> BrakOceny,
      ocena_wiralnosci |-> FALSE,
      wideo |-> FALSE,
      krok_aktualny |-> "start",
      iteracja |-> 0,
      bledy |-> <<>>,
      status |-> "w_trakcie",
      koszt_calkowity_usd |-> 0 ]

\* dict.get(klucz, domyslna)
Pobierz(d, klucz, domyslna) == IF klucz \in DOMAIN d THEN d[klucz] ELSE domyslna

\* Zastosuj with bledy as a plain channel: the returned list replaces the old
Zastosuj_nadpisz(s, akt) ==
    [k \in DOMAIN s |-> IF k \in DOMAIN akt THEN akt[k] ELSE s[k]]

\* Channel update of LangGraph for StanNEXUS: bledy is Annotated[List, add],
\* every other key is overwritten by the value the node returned.
Zastosuj(s, akt) ==
    [k \in DOMAIN s |->
        IF k \in DOMAIN akt
        THEN IF k = "bledy" THEN s[k] \o akt[k] ELSE akt[k]
        ELSE s[k]]

----------------------------------------------------------------------------
(* Agents: each operator is the dictionary the node returns                *)

strateg_tresci(s, wyn, koszt) ==
    IF wyn = "ok"
    THEN [ plan_tresci |-> TRUE,
           krok_aktualny |-> "plan_gotowy",
           koszt_calkowity_usd |-> s.koszt_calkowity_usd + koszt ]
    ELSE [ bledy |-> <<"Strateg Tresci: wyjatek">>,
           krok_aktualny |-> "blad_stratega" ]

pisarz_scenariuszy(s, wyn, koszt) ==
    IF ~s.plan_tresci
    THEN [ bledy |-> <<"Pisarz Scenariuszy: brak planu tresci">>,
           krok_aktualny |-> "blad_pisarza" ]
    ELSE IF wyn = "ok"
    THEN [ scenariusz |-> TRUE,
           krok_aktualny |-> "scenariusz_gotowy",
           koszt_calkowity_usd |-> s.koszt_calkowity_usd + koszt ]
    ELSE [ bledy |-> <<"Pisarz Scenariuszy: wyjatek">>,
           krok_aktualny |-> "blad_pisarza" ]

\* A branch that raises is represented by the exception object gather returns
\* in its place (return_exceptions=True); it carries only its message.
rezyser_glosu(s, wyn, koszt) ==
    IF ~s.scenariusz
    THEN [ bledy |-> <<"Rezyser Glosu: brak scenariusza">>,
           krok_aktualny |-> "blad_rezysera" ]
    ELSE IF wyn = "wyjatek"
    THEN [ wyjatek |-> "OSError: katalog audio" ]
    ELSE IF wyn = "ok"
    THEN [ audio |-> TRUE,
           krok_aktualny |-> "audio_gotowe",
           koszt_calkowity_usd |-> s.koszt_calkowity_usd + koszt ]
    ELSE [ bledy |-> <<"Rezyser Glosu: blad generacji audio">>,
           krok_aktualny |-> "blad_rezysera" ]

\* producent_wizualny that returns its own cost instead of the new total
producent_wizualny_delta(s, wyn, obrazy, miniatura) ==
    IF ~s.scenariusz
    THEN [ bledy |-> <<"Producent Wizualny: brak scenariusza">>,
           krok_aktualny |-> "blad_producenta" ]
    ELSE IF wyn = "wyjatek"
    THEN [ wyjatek |-> "OSError: katalog obrazy" ]
    ELSE [ wizualia |-> [jest |-> TRUE, liczba_obrazow |-> obrazy],
           krok_aktualny |-> "wizualia_gotowe",
           koszt_calkowity_usd |-> KosztObrazu * (obrazy + miniatura) ]

\* obrazy: number of scene images generated; miniatura: 1 when the thumbnail
\* was generated, else 0.  Each costs 0.040 USD.
producent_wizualny(s, wyn, obrazy, miniatura) ==
    IF ~s.scenariusz
    THEN [ bledy |-> <<"Producent Wizualny: brak scenariusza">>,
           krok_aktualny |-> "blad_producenta" ]
    ELSE IF wyn = "wyjatek"
    THEN [ wyjatek |-> "OSError: katalog obrazy" ]
    ELSE [ wizualia |-> [jest |-> TRUE, liczba_obrazow |-> obrazy],
           krok_aktualny |-> "wizualia_gotowe",
           koszt_calkowity_usd |->
               s.koszt_calkowity_usd + KosztObrazu * (obrazy + miniatura) ]

\* ScalWynik that assigns a returned bledy list instead of extending
ScalWynik_nadpisz(scalony, w) ==
    IF "wyjatek" \in DOMAIN w
    THEN [k \in DOMAIN scalony \cup {"bledy"} |->
            IF k = "bledy"
            THEN Pobierz(scalony, "bledy", <<>>) \o <<w.wyjatek>>
            ELSE scalony[k]]
    ELSE [k \in DOMAIN scalony \cup DOMAIN w |->
            IF k \in DOMAIN w
            THEN IF k = "koszt_calkowity_usd"
                 THEN Pobierz(scalony, k, 0) + w[k]
                 ELSE w[k]
            ELSE scalony[k]]

\* One pass of the loop body "for wynik in wyniki" of producja_rownolegle
ScalWynik(scalony, w) ==
    IF "wyjatek" \in DOMAIN w
    THEN [k \in DOMAIN scalony \cup {"bledy"} |->
            IF k = "bledy"
            THEN Pobierz(scalony, "bledy", <<>>) \o <<w.wyjatek>>
            ELSE scalony[k]]
    ELSE [k \in DOMAIN scalony \cup DOMAIN w |->
            IF k \in DOMAIN w
            THEN IF k = "bledy"
                 THEN Pobierz(scalony, "bledy", <<>>) \o w[k]
                 ELSE IF k = "koszt_calkowity_usd"
                 THEN Pobierz(scalony, k, 0) + w[k]
                 ELSE w[k]
            ELSE scalony[k]]

RECURSIVE ScalOd(_, _, _)
ScalOd(scalony, ws, i) ==
    IF i > Len(ws) THEN scalony
    ELSE ScalOd(ScalWynik(scalony, ws[i]), ws, i + 1)

\* producja_rownolegle merging the results in the order the branches finished
producja_rownolegle_wg_ukonczenia(ws) ==
    ScalOd(<<>>, [i \in 1..Len(ws) |-> ws[kolejnosc[i]]], 1)

\* Fan-in of producja_rownolegle: the merged dictionary the node returns
producja_rownolegle(ws) == ScalOd(<<>>, ws, 1)

\* recenzent_jakosci approving only above the threshold
recenzent_jakosci_ostro(s, wyn, wynik_ogolny, koszt) ==
    IF ~(s.scenariusz /\ s.audio /\ s.wizualia.jest)
    THEN [ ocena_jakosci |->
               [jest |-> TRUE, wynik_ogolny |-> 65, zatwierdzone |-> TRUE],
           ocena_wiralnosci |-> TRUE,
           krok_aktualny |-> "recenzja_gotowa",
           iteracja |-> s.iteracja + 1 ]
    ELSE IF wyn = "ok"
    THEN [ ocena_jakosci |->
               [jest |-> TRUE, wynik_ogolny |-> wynik_ogolny,
                zatwierdzone |-> (wynik_ogolny > PROG_JAKOSCI)],
           ocena_wiralnosci |-> TRUE,
           krok_aktualny |-> IF wynik_ogolny > PROG_JAKOSCI
                             THEN "recenzja_gotowa" ELSE "wymaga_poprawy",
           iteracja |-> s.iteracja + 1,
           koszt_calkowity_usd |-> s.koszt_calkowity_usd + koszt ]
    ELSE [ ocena_jakosci |->
               [jest |-> TRUE, wynik_ogolny |-> 70, zatwierdzone |-> TRUE],
           ocena_wiralnosci |-> TRUE,
           krok_aktualny |-> "recenzja_gotowa",
           iteracja |-> s.iteracja + 1,
           bledy |-> <<"Recenzent (nieblokujacy): wyjatek">> ]

\* recenzent_jakosci rejecting, instead of approving, when its evaluation fails
recenzent_jakosci_blad_odrzuca(s, wyn, wynik_ogolny, koszt) ==
    IF ~(s.scenariusz /\ s.audio /\ s.wizualia.jest)
    THEN [ ocena_jakosci |->
               [jest |-> TRUE, wynik_ogolny |-> 65, zatwierdzone |-> TRUE],
           ocena_wiralnosci |-> TRUE,
           krok_aktualny |-> "recenzja_gotowa",
           iteracja |-> s.iteracja + 1 ]
    ELSE IF wyn = "ok"
    THEN [ ocena_jakosci |->
               [jest |-> TRUE, wynik_ogolny |-> wynik_ogolny,
                zatwierdzone |-> (wynik_ogolny >= PROG_JAKOSCI)],
           ocena_wiralnosci |-> TRUE,
           krok_aktualny |-> IF wynik_ogolny >= PROG_JAKOSCI
                             THEN "recenzja_gotowa" ELSE "wymaga_poprawy",
           iteracja |-> s.iteracja + 1,
           koszt_calkowity_usd |-> s.koszt_calkowity_usd + koszt ]
    ELSE [ ocena_jakosci |->
               [jest |-> TRUE, wynik_ogolny |-> 0, zatwierdzone |-> FALSE],
           ocena_wiralnosci |-> TRUE,
           krok_aktualny |-> "wymaga_poprawy",
           iteracja |-> s.iteracja + 1,
           bledy |-> <<"Recenzent (nieblokujacy): wyjatek">> ]

\* recenzent_jakosci counting only the passes it rejects
recenzent_jakosci_tylko_odrzucone(s, wyn, wynik_ogolny, koszt) ==
    IF ~(s.scenariusz /\ s.audio /\ s.wizualia.jest)
    THEN [ ocena_jakosci |->
               [jest |-> TRUE, wynik_ogolny |-> 65, zatwierdzone |-> TRUE],
           ocena_wiralnosci |-> TRUE,
           krok_aktualny |-> "recenzja_gotowa",
           iteracja |-> s.iteracja + 1 ]
    ELSE IF wyn = "ok"
    THEN [ ocena_jakosci |->
               [jest |-> TRUE, wynik_ogolny |-> wynik_ogolny,
                zatwierdzone |-> (wynik_ogolny >= PROG_JAKOSCI)],
           ocena_wiralnosci |-> TRUE,
           krok_aktualny |-> IF wynik_ogolny >= PROG_JAKOSCI
                             THEN "recenzja_gotowa" ELSE "wymaga_poprawy",
           iteracja |-> IF wynik_ogolny >= PROG_JAKOSCI
                        THEN s.iteracja ELSE s.iteracja + 1,
           koszt_calkowity_usd |-> s.koszt_calkowity_usd + koszt ]
    ELSE [ ocena_jakosci |->
               [jest |-> TRUE, wynik_ogolny |-> 70, zatwierdzone |-> TRUE],
           ocena_wiralnosci |-> TRUE,
           krok_aktualny |-> "recenzja_gotowa",
           iteracja |-> s.iteracja + 1,
           bledy |-> <<"Recenzent (nieblokujacy): wyjatek">> ]

recenzent_jakosci(s, wyn, wynik_ogolny, koszt) ==
    IF ~(s.scenariusz /\ s.audio /\ s.wizualia.jest)
    THEN [ ocena_jakosci |->
               [jest |-> TRUE, wynik_ogolny |-> 65, zatwierdzone |-> TRUE],
           ocena_wiralnosci |-> TRUE,
           krok_aktualny |-> "recenzja_gotowa",
           iteracja |-> s.iteracja + 1 ]
    ELSE IF wyn = "ok"
    THEN [ ocena_jakosci |->
               [jest |-> TRUE, wynik_ogolny |-> wynik_ogolny,
                zatwierdzone |-> (wynik_ogolny >= PROG_JAKOSCI)],
           ocena_wiralnosci |-> TRUE,
           krok_aktualny |-> IF wynik_ogolny >= PROG_JAKOSCI
                             THEN "recenzja_gotowa" ELSE "wymaga_poprawy",
           iteracja |-> s.iteracja + 1,
           koszt_calkowity_usd |-> s.koszt_calkowity_usd + koszt ]
    ELSE [ ocena_jakosci |->
               [jest |-> TRUE, wynik_ogolny |-> 70, zatwierdzone |-> TRUE],
           ocena_wiralnosci |-> TRUE,
           krok_aktualny |-> "recenzja_gotowa",
           iteracja |-> s.iteracja + 1,
           bledy |-> <<"Recenzent (nieblokujacy): wyjatek">> ]

\* srodowisko: what the compositor finds on the machine
\*   ok | brak_ffmpeg | brak_plikow | blad_ffmpeg
kompozytor(s, srodowisko) ==
    IF srodowisko = "brak_ffmpeg"
    THEN [ bledy |-> <<"Compositor: FFmpeg nie jest zainstalowany">>,
           krok_aktualny |-> "blad_compositora" ]
    ELSE IF ~s.wizualia.jest \/ s.wizualia.liczba_obrazow = 0
    THEN [ bledy |-> <<"Compositor: brak obrazow wizualnych">>,
           krok_aktualny |-> "blad_compositora" ]
    ELSE IF srodowisko = "brak_plikow"
    THEN [ bledy |-> <<"Compositor: pliki obrazow niedostepne">>,
           krok_aktualny |-> "blad_compositora" ]
    ELSE IF srodowisko = "blad_ffmpeg"
    THEN [ bledy |-> <<"Compositor: blad FFmpeg przy generacji wideo">>,
           krok_aktualny |-> "blad_compositora" ]
    ELSE [ wideo |-> TRUE,
           krok_aktualny |-> "wideo_gotowe",
           status |-> "gotowe" ]

koniec_z_bledem(s) ==
    [ krok_aktualny |-> "blad_krytyczny", status |-> "blad" ]

----------------------------------------------------------------------------
(* Routers                                                                 *)

\* routing_po_recenzji sending an exhausted session to the compositor
routing_po_recenzji_do_compositora(s) ==
    IF s.ocena_jakosci.jest /\ s.ocena_jakosci.zatwierdzone
    THEN "compositor"
    ELSE IF s.iteracja >= MAKS_PONOWNYCH_PROB
    THEN "compositor"
    ELSE "pisarz_scenariuszy"

\* routing_po_recenzji with ">" for ">=" in the exhaustion test
routing_po_recenzji_gt(s) ==
    IF s.ocena_jakosci.jest /\ s.ocena_jakosci.zatwierdzone
    THEN "compositor"
    ELSE IF s.iteracja > MAKS_PONOWNYCH_PROB
    THEN "koniec_z_bledem"
    ELSE "pisarz_scenariuszy"

\* routing_po_recenzji giving up one pass early
routing_po_recenzji_wczesnie(s) ==
    IF s.ocena_jakosci.jest /\ s.ocena_jakosci.zatwierdzone
    THEN "compositor"
    ELSE IF s.iteracja >= MAKS_PONOWNYCH_PROB - 1
    THEN "koniec_z_bledem"
    ELSE "pisarz_scenariuszy"

routing_po_recenzji(s) ==
    IF s.ocena_jakosci.jest /\ s.ocena_jakosci.zatwierdzone
    THEN "compositor"
    ELSE IF s.iteracja >= MAKS_PONOWNYCH_PROB
    THEN "koniec_z_bledem"
    ELSE "pisarz_scenariuszy"

\* routing_po_strategii that does not look at the plan
routing_po_strategii_zawsze(s) == "pisarz_scenariuszy"

routing_po_strategii(s) ==
    IF s.plan_tresci THEN "pisarz_scenariuszy" ELSE "koniec_z_bledem"
----------------------------------------------------------------------------
(* The engine: one action per node of zbuduj_graf_nexus                    *)

Oczekuje == [oczekuje |-> TRUE]

\* no attempt of the task has been interrupted
BrakPunktu == [wezel |-> "brak", iteracja |-> 0, koszt |-> 0, bledy |-> <<>>]

\* nothing published or stored yet (redis GET gives None)
BrakZdarzenia == [krok |-> "brak", procent |-> 0]

\* a step invocation failed: it raised, or it returned error records
Nieudany(w) == "wyjatek" \in DOMAIN w \/ "bledy" \in DOMAIN w

\* cost delta a step reported on top of the snapshot s it was given
Delta(s, w) ==
    IF "koszt_calkowity_usd" \in DOMAIN w
    THEN w.koszt_calkowity_usd - s.koszt_calkowity_usd
    ELSE 0

\* the graph before astream, and no history
InitGrafu ==
    /\ stan = stan_poczatkowy
    /\ wezel = "strateg_tresci"
    /\ galezie = "brak"
    /\ wyniki = <<Oczekuje, Oczekuje>>
    /\ wynik = [status |-> "brak"]
    /\ ostatni = "START"
    /\ poprz = stan_poczatkowy
    /\ oceny = <<>>
    /\ awarie = 0
    /\ sumaDelt = 0
    /\ kolejnosc = <<>>
    /\ migawka = [stan |-> stan_poczatkowy, wezel |-> "strateg_tresci"]

\* nothing published, nothing stored, first attempt
InitKanalu ==
    /\ proba = 0
    /\ punkt = BrakPunktu
    /\ kanal = BrakZdarzenia
    /\ zapis = BrakZdarzenia
    /\ awarieKanalu = 0
    /\ powod = "brak"
    /\ obs = "brak"
    /\ obsStan = BrakZdarzenia

\* sessions that call the shared orchestrator concurrently
Sesje == {"s1", "s2"}

\* config of generuj_wideo with every session on one thread
thread_id_wspolny(sesja_id) == "s1"

\* config = {"configurable": {"thread_id": sesja_id}}
thread_id(sesja_id) == sesja_id

\* Path(konf.SCIEZKA_TYMCZASOWA) / sesja_id, Path(konf.SCIEZKA_WYJSCIOWA) / sesja_id
Katalog(sesja_id) == sesja_id

\* a session generuj_wideo has not been called for
NieZaczeta == [stan |-> stan_poczatkowy, wezel |-> "brak"]

\* an orchestrator nobody has called
InitSesji ==
    /\ pamiec = [k \in {thread_id(id) : id \in Sesje} |-> NieZaczeta]
    /\ katalogi = [k \in {Katalog(id) : id \in Sesje} |-> "brak"]
    /\ zwrocone = [id \in Sesje |-> [status |-> "brak"]]
    /\ solo = [id \in Sesje |-> NieZaczeta]

Init == InitGrafu /\ InitKanalu /\ InitSesji /\ zadanie = "brak"

\* The node nazwa returned akt: merge it, record it, move to nastepny
Krok(nazwa, akt, nastepny) ==
    /\ stan' = Zastosuj(stan, akt)
    /\ wezel' = nastepny
    /\ ostatni' = nazwa
    /\ poprz' = stan
    /\ awarie' = awarie + (IF Nieudany(akt) THEN 1 ELSE 0)
    /\ sumaDelt' = sumaDelt + Delta(stan, akt)
    /\ kolejnosc' = <<>>
    /\ migawka' = [stan |-> Zastosuj(stan, akt), wezel |-> nastepny]

\* The node nazwa raised: the exception leaves astream
Wyjatek(nazwa) ==
    /\ wezel' = "wyjatek"
    /\ ostatni' = nazwa
    /\ poprz' = stan
    /\ awarie' = awarie + 1
    /\ kolejnosc' = <<>>
    /\ UNCHANGED <<stan, sumaDelt, migawka>>

Strateg ==
    /\ wezel = "strateg_tresci"
    /\ \E wyn \in {"ok", "blad"}, koszt \in Koszty :
         LET akt == strateg_tresci(stan, wyn, koszt)
         IN  Krok("strateg_tresci", akt, routing_po_strategii(Zastosuj(stan, akt)))
    /\ UNCHANGED <<galezie, wyniki, wynik, oceny>>

Pisarz ==
    /\ wezel = "pisarz_scenariuszy"
    /\ \E wyn \in {"ok", "blad"}, koszt \in Koszty :
         Krok("pisarz_scenariuszy", pisarz_scenariuszy(stan, wyn, koszt),
              "produkcja_rownolegla")
    /\ UNCHANGED <<galezie, wyniki, wynik, oceny>>

\* asyncio.gather starts both branches on the same snapshot stan
Rozgalez ==
    /\ wezel = "produkcja_rownolegla"
    /\ galezie # "uruchomione"
    /\ galezie' = "uruchomione"
    /\ wyniki' = <<Oczekuje, Oczekuje>>
    /\ kolejnosc' = <<>>
    /\ UNCHANGED <<stan, wezel, wynik, ostatni, poprz, oceny, awarie, sumaDelt, migawka>>

\* ZakonczRezysera with a checkpoint committed for the branch on its own
ZakonczRezysera_z_migawka ==
    /\ galezie = "uruchomione"
    /\ wyniki[1] = Oczekuje
    /\ \E wyn \in {"ok", "blad", "wyjatek"}, koszt \in Koszty :
         /\ wyniki' = [wyniki EXCEPT ![1] = rezyser_glosu(stan, wyn, koszt)]
         /\ migawka' = [stan |-> Zastosuj(stan, ScalWynik(<<>>, rezyser_glosu(stan, wyn, koszt))),
                        wezel |-> "produkcja_rownolegla"]
    /\ kolejnosc' = Append(kolejnosc, 1)
    /\ UNCHANGED <<stan, wezel, galezie, wynik, ostatni, poprz, oceny, awarie, sumaDelt>>

ZakonczRezysera ==
    /\ galezie = "uruchomione"
    /\ wyniki[1] = Oczekuje
    /\ \E wyn \in {"ok", "blad", "wyjatek"}, koszt \in Koszty :
         wyniki' = [wyniki EXCEPT ![1] = rezyser_glosu(stan, wyn, koszt)]
    /\ kolejnosc' = Append(kolejnosc, 1)
    /\ UNCHANGED <<stan, wezel, galezie, wynik, ostatni, poprz, oceny, awarie, sumaDelt,
                   migawka>>

ZakonczProducenta ==
    /\ galezie = "uruchomione"
    /\ wyniki[2] = Oczekuje
    /\ \E wyn \in {"ok", "wyjatek"}, obrazy \in 0..MaxObrazow, miniatura \in 0..1 :
         wyniki' = [wyniki EXCEPT ![2] = producent_wizualny(stan, wyn, obrazy, miniatura)]
    /\ kolejnosc' = Append(kolejnosc, 2)
    /\ UNCHANGED <<stan, wezel, galezie, wynik, ostatni, poprz, oceny, awarie, sumaDelt,
                   migawka>>

\* Scal with a gather that returns at the first branch that failed
Scal_przy_pierwszym_bledzie ==
    /\ galezie = "uruchomione"
    /\ \/ \A i \in 1..2 : wyniki[i] # Oczekuje
       \/ \E i \in 1..2 : Nieudany(wyniki[i])
    /\ galezie' = "scalone"
    /\ stan' = Zastosuj(stan, producja_rownolegle(SelectSeq(wyniki, LAMBDA w : w # Oczekuje)))
    /\ wezel' = "recenzent_jakosci"
    /\ migawka' = [stan |-> stan', wezel |-> "recenzent_jakosci"]
    /\ ostatni' = "produkcja_rownolegla"
    /\ poprz' = stan
    /\ awarie' = awarie + Cardinality({i \in 1..2 : Nieudany(wyniki[i])})
    /\ sumaDelt' = sumaDelt + Delta(stan, wyniki[1]) + Delta(stan, wyniki[2])
    /\ UNCHANGED <<wyniki, wynik, oceny, kolejnosc>>

\* gather returned: fan-in, then the fixed edge to the reviewer
Scal ==
    /\ galezie = "uruchomione"
    /\ \A i \in 1..2 : wyniki[i] # Oczekuje
    /\ galezie' = "scalone"
    /\ stan' = Zastosuj(stan, producja_rownolegle(wyniki))
    /\ wezel' = "recenzent_jakosci"
    /\ migawka' = [stan |-> Zastosuj(stan, producja_rownolegle(wyniki)),
                   wezel |-> "recenzent_jakosci"]
    /\ ostatni' = "produkcja_rownolegla"
    /\ poprz' = stan
    /\ awarie' = awarie + Cardinality({i \in 1..2 : Nieudany(wyniki[i])})
    /\ sumaDelt' = sumaDelt + Delta(stan, wyniki[1]) + Delta(stan, wyniki[2])
    /\ UNCHANGED <<wyniki, wynik, oceny, kolejnosc>>

\* The reviewer raises only after its completeness check (prompt building)
Recenzent ==
    /\ wezel = "recenzent_jakosci"
    /\ \E wyn \in {"ok", "blad", "wyjatek"}, wynik_ogolny \in Wyniki, koszt \in Koszty :
         IF wyn = "wyjatek" /\ stan.scenariusz /\ stan.audio /\ stan.wizualia.jest
         THEN /\ Wyjatek("recenzent_jakosci")
              /\ UNCHANGED oceny
         ELSE LET akt == recenzent_jakosci(stan, wyn, wynik_ogolny, koszt)
              IN  /\ Krok("recenzent_jakosci", akt,
                          routing_po_recenzji(Zastosuj(stan, akt)))
                  /\ oceny' = Append(oceny, akt.ocena_jakosci.wynik_ogolny)
    /\ UNCHANGED <<galezie, wyniki, wynik>>

\* The compositor raises only after its input checks (output directory)
Compositor ==
    /\ wezel = "compositor"
    /\ \E srodowisko \in {"ok", "brak_ffmpeg", "brak_plikow", "blad_ffmpeg", "wyjatek"} :
         IF srodowisko = "wyjatek" /\ stan.wizualia.jest /\ stan.wizualia.liczba_obrazow > 0
         THEN Wyjatek("compositor")
         ELSE Krok("compositor", kompozytor(stan, srodowisko), "END")
    /\ UNCHANGED <<galezie, wyniki, wynik, oceny>>

KoniecZBledem ==
    /\ wezel = "koniec_z_bledem"
    /\ Krok("koniec_z_bledem", koniec_z_bledem(stan), "END")
    /\ UNCHANGED <<galezie, wyniki, wynik, oceny>>

\* OrkiestratorNEXUS.generuj_wideo after astream ended or raised
generuj_wideo(s, w) ==
    IF w = "wyjatek" \/ ~s.ocena_wiralnosci
    THEN [ status |-> "blad", koszt_usd |-> 0 ]
    ELSE [ status |-> IF s.wideo THEN "sukces" ELSE "czesciowy",
           wideo |-> s.wideo,
           bledy |-> s.bledy,
           koszt_usd |-> s.koszt_calkowity_usd,
           iteracje |-> s.iteracja ]

Zwroc ==
    /\ wezel \in {"END", "wyjatek"}
    /\ wynik.status = "brak"
    /\ wynik' = generuj_wideo(stan, wezel)
    /\ UNCHANGED <<stan, wezel, galezie, wyniki, ostatni, poprz, oceny, awarie, sumaDelt,
                   kolejnosc, migawka>>

\* generuj_wideo called directly (api): no task, no progress events
Next ==
    \/ Strateg /\ UNCHANGED <<zvars, svars>>
    \/ Pisarz /\ UNCHANGED <<zvars, svars>>
    \/ Rozgalez /\ UNCHANGED <<zvars, svars>>
    \/ ZakonczRezysera /\ UNCHANGED <<zvars, svars>>
    \/ ZakonczProducenta /\ UNCHANGED <<zvars, svars>>
    \/ Scal /\ UNCHANGED <<zvars, svars>>
    \/ Recenzent /\ UNCHANGED <<zvars, svars>>
    \/ Compositor /\ UNCHANGED <<zvars, svars>>
    \/ KoniecZBledem /\ UNCHANGED <<zvars, svars>>
    \/ Zwroc /\ UNCHANGED <<zvars, svars>>

Spec == Init /\ [][Next]_vars

TypeOK ==
    /\ stan.iteracja \in Nat
    /\ wezel \in {"strateg_tresci", "pisarz_scenariuszy", "produkcja_rownolegla",
                  "recenzent_jakosci", "compositor", "koniec_z_bledem", "END", "wyjatek"}
----------------------------------------------------------------------------
(* The Celery task generuj_wideo_task (zadania/generacja.py)               *)

max_retries == 2

\* largest number of Redis faults opublikuj_postep meets in one session
MaxAwariiKanalu == 1

\* percent of the event _uruchom_z_postepem publishes for a node
ETAPY_PIPELINE ==
    [ strateg_tresci |-> 15,
      pisarz_scenariuszy |-> 30,
      produkcja_rownolegla |-> 55,
      recenzent_jakosci |-> 80,
      compositor |-> 92 ]

Zdarzenie(krok, procent) == [krok |-> krok, procent |-> procent]

\* events after which websocket_postep stops listening
Koncowe(zd) == zd.procent >= 100 \/ zd.krok \in {"gotowe", "blad", "blad_krytyczny"}

\* r.publish: Redis hands zd to the handler if it is subscribed, and the
\* handler forwards it and leaves after a final event
Nadaj(r, zd) ==
    IF r.obs = "subskrybuje"
    THEN [r EXCEPT !.kanal = zd, !.odbior = zd,
                   !.obs = IF Koncowe(zd) THEN "rozlaczony" ELSE @]
    ELSE [r EXCEPT !.kanal = zd]

\* r: [kanal, zapis, awarie, wyjatek, obs, odbior].  wyn says where Redis
\* fails, if at all: in publish (nothing is sent) or in setex (sent, not
\* stored); either way the exception is logged and swallowed.
opublikuj_postep(r, zd, wyn) ==
    IF wyn = "publish" THEN [r EXCEPT !.awarie = @ + 1]
    ELSE IF wyn = "setex" THEN [Nadaj(r, zd) EXCEPT !.awarie = @ + 1]
    ELSE [Nadaj(r, zd) EXCEPT !.zapis = zd]

\* postep of generuj_wideo_task: update_state runs first, outside any try
postep(r, zd, wyn) ==
    IF r.wyjatek THEN r
    ELSE IF wyn = "update_state" THEN [r EXCEPT !.wyjatek = TRUE]
    ELSE opublikuj_postep(r, zd, wyn)

Redis ==
    [ kanal |-> kanal, zapis |-> zapis, awarie |-> awarieKanalu, wyjatek |-> FALSE,
      obs |-> obs, odbior |-> obsStan ]

\* Redis and the handler after the calls that gave r
PoRedis(r) ==
    /\ kanal' = r.kanal
    /\ zapis' = r.zapis
    /\ awarieKanalu' = r.awarie
    /\ obs' = r.obs
    /\ obsStan' = r.odbior

\* ways one call of opublikuj_postep can go, given the faults swallowed so far
Publikacje(a) == {"ok"} \cup (IF a < MaxAwariiKanalu THEN {"publish", "setex"} ELSE {})

\* ways one call of postep can go
Przebiegi(a) == Publikacje(a) \cup {"update_state"}

\* the task goes on as dalej with r, or leaves for its except clause
PoPostepie(r, dalej) ==
    /\ PoRedis(r)
    /\ zadanie' = IF r.wyjatek THEN "EXCEPT" ELSE dalej

\* a MemorySaver that holds nothing of the session
Zapomnij ==
    /\ stan' = stan_poczatkowy
    /\ wezel' = "strateg_tresci"
    /\ galezie' = "brak"
    /\ wyniki' = <<Oczekuje, Oczekuje>>
    /\ ostatni' = "START"
    /\ poprz' = stan_poczatkowy
    /\ oceny' = <<>>
    /\ awarie' = 0
    /\ sumaDelt' = 0
    /\ kolejnosc' = <<>>
    /\ migawka' = [stan |-> stan_poczatkowy, wezel |-> "strateg_tresci"]

\* The worker starts the task: postep("start"), a new OrkiestratorNEXUS with
\* its own MemorySaver, postep("strateg"), then astream(stan_poczatkowy).
Uruchom ==
    /\ zadanie \in {"PENDING", "RETRY"}
    /\ \E w1 \in Przebiegi(awarieKanalu) :
         LET r1 == postep(Redis, Zdarzenie("start", 0), w1)
         IN  \E w2 \in Przebiegi(r1.awarie) :
               PoPostepie(postep(r1, Zdarzenie("strateg", 10), w2), "PROGRESS")
    /\ Zapomnij
    /\ punkt' = BrakPunktu
    /\ powod' = "brak"
    /\ UNCHANGED <<wynik, proba>>

\* The loop body of _uruchom_z_postepem for the update of node nazwa:
\* callback_postepu for the nodes of ETAPY_PIPELINE, nothing for any other.
\* A node that raised yields no update.
Oglos(nazwa) ==
    /\ IF wezel' # "wyjatek" /\ nazwa \in DOMAIN ETAPY_PIPELINE
       THEN \E wyn \in Przebiegi(awarieKanalu) :
              PoPostepie(postep(Redis, Zdarzenie(nazwa, ETAPY_PIPELINE[nazwa]), wyn),
                         "PROGRESS")
       ELSE UNCHANGED <<zadanie, kvars>>
    /\ UNCHANGED <<proba, punkt, powod>>

\* astream is being consumed
Dziala == zadanie = "PROGRESS"

ZStrateg == Dziala /\ Strateg /\ Oglos("strateg_tresci")
ZPisarz == Dziala /\ Pisarz /\ Oglos("pisarz_scenariuszy")
ZRozgalez == Dziala /\ Rozgalez /\ UNCHANGED zvars
ZZakonczRezysera == Dziala /\ ZakonczRezysera /\ UNCHANGED zvars
ZZakonczProducenta == Dziala /\ ZakonczProducenta /\ UNCHANGED zvars
ZScal == Dziala /\ Scal /\ Oglos("produkcja_rownolegla")
ZRecenzent == Dziala /\ Recenzent /\ Oglos("recenzent_jakosci")
ZCompositor == Dziala /\ Compositor /\ Oglos("compositor")
ZKoniecZBledem == Dziala /\ KoniecZBledem /\ Oglos("koniec_z_bledem")

\* the dictionary _uruchom_z_postepem returns
uruchom_z_postepem(s) ==
    [ status |-> IF s.wideo THEN "sukces" ELSE "czesciowy",
      wideo |-> s.wideo,
      bledy |-> s.bledy,
      koszt_usd |-> s.koszt_calkowity_usd,
      iteracje |-> s.iteracja ]

\* astream is exhausted: postep("gotowe", 100) and the task returns wynik
Gotowe ==
    /\ Dziala
    /\ wezel = "END"
    /\ \E wyn \in Przebiegi(awarieKanalu) :
         LET r == postep(Redis, Zdarzenie("gotowe", 100), wyn)
         IN  /\ PoPostepie(r, "SUCCESS")
             /\ wynik' = IF r.wyjatek THEN wynik ELSE uruchom_z_postepem(stan)
    /\ UNCHANGED <<stan, wezel, galezie, wyniki, ostatni, poprz, oceny, awarie,
                   sumaDelt, kolejnosc, migawka, proba, punkt, powod>>

\* The attempt ends because of p: its orchestrator and MemorySaver go with
\* it; punkt remembers the checkpoint it had reached.
Porzuc(p) ==
    /\ Zapomnij
    /\ punkt' = [ wezel |-> ostatni, iteracja |-> stan.iteracja,
                  koszt |-> stan.koszt_calkowity_usd, bledy |-> stan.bledy ]
    /\ powod' = p

\* except Exception of the task: publish "blad", then self.retry: a new
\* attempt while retries remain, else the exception fails the task.
Obsluz(p) ==
    /\ \E wyn \in Publikacje(awarieKanalu) :
         PoRedis(opublikuj_postep(Redis, Zdarzenie("blad", 0), wyn))
    /\ IF proba < max_retries
       THEN /\ zadanie' = "RETRY"
            /\ proba' = proba + 1
            /\ wynik' = wynik
       ELSE /\ zadanie' = "FAILURE"
            /\ proba' = proba
            /\ wynik' = [status |-> "FAILURE"]
    /\ Porzuc(p)

\* a node or postep raised
ObsluzWyjatek ==
    /\ zadanie = "EXCEPT" \/ (zadanie = "PROGRESS" /\ wezel = "wyjatek")
    /\ Obsluz("wyjatek")

\* task_soft_time_limit: SoftTimeLimitExceeded is raised inside the task and
\* reaches its except clause.  (Raised inside a step that catches Exception
\* it becomes that step's error record: the "blad" outcome of the step.)
MiekkiLimit ==
    /\ zadanie = "PROGRESS"
    /\ wezel \notin {"END", "wyjatek"}
    /\ Obsluz("limit")

\* task_time_limit: the worker kills the process that runs the task.  The
\* soft limit came first, so a step has caught it and reported an error.
TwardyLimit ==
    /\ zadanie = "PROGRESS"
    /\ awarie > 0
    /\ zadanie' = "FAILURE"
    /\ wynik' = [status |-> "FAILURE"]
    /\ Porzuc("limit")
    /\ UNCHANGED <<proba, kvars>>

\* The worker process dies: task_acks_late with task_reject_on_worker_lost
\* puts the message back on the queue, with the same number of retries.
UtrataProcesu ==
    /\ zadanie \in {"PROGRESS", "EXCEPT"}
    /\ zadanie' = "PENDING"
    /\ Porzuc("utrata")
    /\ UNCHANGED <<wynik, proba, kvars>>

\* anuluj_zadanie: 409 for a finished task, else revoke(terminate=True)
Anuluj ==
    /\ zadanie \notin {"SUCCESS", "FAILURE", "REVOKED"}
    /\ zadanie' = "REVOKED"
    /\ Porzuc("anulowano")
    /\ UNCHANGED <<wynik, proba, kvars>>

InitZadanie == InitGrafu /\ InitKanalu /\ InitSesji /\ zadanie = "PENDING"

NextZadanie ==
    \/ Uruchom /\ UNCHANGED svars
    \/ ZStrateg /\ UNCHANGED svars
    \/ ZPisarz /\ UNCHANGED svars
    \/ ZRozgalez /\ UNCHANGED svars
    \/ ZZakonczRezysera /\ UNCHANGED svars
    \/ ZZakonczProducenta /\ UNCHANGED svars
    \/ ZScal /\ UNCHANGED svars
    \/ ZRecenzent /\ UNCHANGED svars
    \/ ZCompositor /\ UNCHANGED svars
    \/ ZKoniecZBledem /\ UNCHANGED svars
    \/ Gotowe /\ UNCHANGED svars
    \/ ObsluzWyjatek /\ UNCHANGED svars
    \/ MiekkiLimit /\ UNCHANGED svars
    \/ TwardyLimit /\ UNCHANGED svars
    \/ UtrataProcesu /\ UNCHANGED svars
    \/ Anuluj /\ UNCHANGED svars

SpecZadanie == InitZadanie /\ [][NextZadanie]_vars

----------------------------------------------------------------------------
(* The WebSocket handler websocket_postep (api/trasy/ws.py)                *)

\* the client connects late: the graph has ended, "gotowe" is still to come
Pozno == zadanie = "PROGRESS" /\ wezel = "END"

\* r.get of the stored state, forwarded to the client if there is one
ObsCzytaj ==
    /\ obs = "brak"
    /\ Pozno
    /\ obs' = "odczytal"
    /\ obsStan' = IF zapis # BrakZdarzenia THEN zapis ELSE obsStan
    /\ UNCHANGED <<gvars, zadanie, proba, punkt, powod, kanal, zapis, awarieKanalu>>

\* pubsub.subscribe: events published from now on reach the handler
ObsSubskrybuj ==
    /\ obs = "odczytal"
    /\ obs' = "subskrybuje"
    /\ UNCHANGED <<gvars, zadanie, proba, punkt, powod, kanal, zapis, awarieKanalu, obsStan>>

\* the 600 s of the listening loop are over
ObsKoniecCzasu ==
    /\ obs = "subskrybuje"
    /\ obs' = "rozlaczony"
    /\ UNCHANGED <<gvars, zadanie, proba, punkt, powod, kanal, zapis, awarieKanalu, obsStan>>

\* the first attempt of the task, and a client that connects to it
NextObserwator ==
    \/ Uruchom /\ UNCHANGED svars
    \/ ZStrateg /\ UNCHANGED svars
    \/ ZPisarz /\ UNCHANGED svars
    \/ ZRozgalez /\ UNCHANGED svars
    \/ ZZakonczRezysera /\ UNCHANGED svars
    \/ ZZakonczProducenta /\ UNCHANGED svars
    \/ ZScal /\ UNCHANGED svars
    \/ ZRecenzent /\ UNCHANGED svars
    \/ ZCompositor /\ UNCHANGED svars
    \/ ZKoniecZBledem /\ UNCHANGED svars
    \/ Gotowe /\ UNCHANGED svars
    \/ ObsCzytaj /\ UNCHANGED svars
    \/ ObsSubskrybuj /\ UNCHANGED svars
    \/ ObsKoniecCzasu /\ UNCHANGED svars

SpecObserwator == InitZadanie /\ [][NextObserwator]_vars

----------------------------------------------------------------------------
(* Concurrent calls of generuj_wideo on the orchestrator singleton          *)

\* what a node may meet when it runs: outcomes of its calls, at the largest
\* cost and image count of the model
Wejscia(w) ==
    IF w \in {"strateg_tresci", "pisarz_scenariuszy"}
    THEN [wyn : {"ok", "blad"}, koszt : {MaxKoszt}]
    ELSE IF w = "produkcja_rownolegla"
    THEN [wyn : {"ok"}, koszt : {MaxKoszt},
          wyn2 : {"ok", "wyjatek"}, obrazy : {MaxObrazow}, miniatura : {1}]
    ELSE IF w = "recenzent_jakosci"
    THEN [wyn : {"ok", "wyjatek"}, wynik_ogolny : {PROG_JAKOSCI - 1, PROG_JAKOSCI},
          koszt : {MaxKoszt}]
    ELSE IF w = "compositor"
    THEN [srodowisko : {"ok", "blad_ffmpeg", "wyjatek"}]
    ELSE {[wyn |-> "ok"]}

\* One superstep of the compiled graph on checkpoint r with inputs x: the
\* node r.wezel runs on r.stan, its update is merged, the router picks the
\* next node.
Wykonaj(r, x) ==
    LET s == r.stan
        Dalej(akt, nastepny) == [stan |-> Zastosuj(s, akt), wezel |-> nastepny]
        Podniesiony == [stan |-> s, wezel |-> "wyjatek"]
    IN  IF r.wezel = "strateg_tresci"
        THEN LET akt == strateg_tresci(s, x.wyn, x.koszt)
             IN  Dalej(akt, routing_po_strategii(Zastosuj(s, akt)))
        ELSE IF r.wezel = "pisarz_scenariuszy"
        THEN Dalej(pisarz_scenariuszy(s, x.wyn, x.koszt), "produkcja_rownolegla")
        ELSE IF r.wezel = "produkcja_rownolegla"
        THEN Dalej(producja_rownolegle(
                       << rezyser_glosu(s, x.wyn, x.koszt),
                          producent_wizualny(s, x.wyn2, x.obrazy, x.miniatura) >>),
                   "recenzent_jakosci")
        ELSE IF r.wezel = "recenzent_jakosci"
        THEN IF x.wyn = "wyjatek" /\ s.scenariusz /\ s.audio /\ s.wizualia.jest
             THEN Podniesiony
             ELSE LET akt == recenzent_jakosci(s, x.wyn, x.wynik_ogolny, x.koszt)
                  IN  Dalej(akt, routing_po_recenzji(Zastosuj(s, akt)))
        ELSE IF r.wezel = "compositor"
        THEN IF x.srodowisko = "wyjatek" /\ s.wizualia.jest /\ s.wizualia.liczba_obrazow > 0
             THEN Podniesiony
             ELSE Dalej(kompozytor(s, x.srodowisko), "END")
        ELSE Dalej(koniec_z_bledem(s), "END")

Wezly == {"strateg_tresci", "pisarz_scenariuszy", "produkcja_rownolegla",
          "recenzent_jakosci", "compositor", "koniec_z_bledem"}

\* generuj_wideo is called for session id: astream(stan_poczatkowy, config)
SRozpocznij(id) ==
    /\ solo[id].wezel = "brak"
    /\ pamiec' = [pamiec EXCEPT ![thread_id(id)] =
                     [stan |-> stan_poczatkowy, wezel |-> "strateg_tresci"]]
    /\ solo' = [solo EXCEPT ![id] = [stan |-> stan_poczatkowy, wezel |-> "strateg_tresci"]]
    /\ UNCHANGED <<katalogi, zwrocone>>

\* astream of session id advances by one superstep on the checkpoint of its
\* thread; the branches leave their files in the directory of the session
SKrok(id) ==
    /\ solo[id].wezel \in Wezly
    /\ pamiec[thread_id(id)].wezel \in Wezly
    /\ \E x \in Wejscia(pamiec[thread_id(id)].wezel) :
         /\ pamiec' = [pamiec EXCEPT ![thread_id(id)] = Wykonaj(@, x)]
         /\ solo' = [solo EXCEPT ![id] =
                        IF x \in Wejscia(@.wezel) THEN Wykonaj(@, x) ELSE @]
    /\ katalogi' = IF pamiec[thread_id(id)].wezel = "produkcja_rownolegla"
                   THEN [katalogi EXCEPT ![Katalog(id)] = id]
                   ELSE katalogi
    /\ UNCHANGED zwrocone

\* astream of session id is over: get_state(config) and the returned result
SZwroc(id) ==
    /\ solo[id].wezel \in {"END", "wyjatek"}
    /\ zwrocone[id].status = "brak"
    /\ zwrocone' = [zwrocone EXCEPT ![id] =
                       generuj_wideo(pamiec[thread_id(id)].stan, pamiec[thread_id(id)].wezel)]
    /\ UNCHANGED <<pamiec, katalogi, solo>>

NextSesje ==
    \E id \in Sesje :
        \/ SRozpocznij(id) /\ UNCHANGED <<gvars, zvars>>
        \/ SKrok(id) /\ UNCHANGED <<gvars, zvars>>
        \/ SZwroc(id) /\ UNCHANGED <<gvars, zvars>>

SpecSesje == Init /\ [][NextSesje]_vars

----------------------------------------------------------------------------
(* Properties                                                              *)

\* the reviewer returned and routing_po_recenzji has just decided
PoRecenzji == ostatni = "recenzent_jakosci" /\ wezel # "wyjatek"

\* the graph reached END (compositor or koniec_z_bledem returned)
Zakonczony == wezel = "END"

\* C1: in the final state of every completed execution of the graph,
\* 0 <= iteracja <= MAKS_PONOWNYCH_PROB.
C1_IteracjaWGranicach ==
    Zakonczony => (0 <= stan.iteracja /\ stan.iteracja <= MAKS_PONOWNYCH_PROB)

C1_Swiadek ==
    Zakonczony /\ stan.iteracja = MAKS_PONOWNYCH_PROB

\* C2 (as claimed): once iteracja = MAKS_PONOWNYCH_PROB at the quality-gate
\* decision, the router resolves to koniec_z_bledem whatever the score,
\* also when the review approved.
C2_ZawszeKoniec ==
    (PoRecenzji /\ stan.iteracja = MAKS_PONOWNYCH_PROB)
        => wezel = "koniec_z_bledem"

\* C2 (amended): once iteracja = MAKS_PONOWNYCH_PROB at the quality-gate
\* decision, the router never resolves to the retry: it resolves to
\* koniec_z_bledem unless the review approved, and then to compositor.
C2_BezPonowienia ==
    (PoRecenzji /\ stan.iteracja = MAKS_PONOWNYCH_PROB)
        => wezel = (IF stan.ocena_jakosci.zatwierdzone
                    THEN "compositor" ELSE "koniec_z_bledem")

C2_Swiadek ==
    /\ PoRecenzji
    /\ stan.iteracja = MAKS_PONOWNYCH_PROB
    /\ ~stan.ocena_jakosci.zatwierdzone
    /\ wezel = "koniec_z_bledem"

\* C3: at the quality-gate decision, a score below PROG_JAKOSCI with
\* iteracja < MAKS_PONOWNYCH_PROB always leads to pisarz_scenariuszy.
C3_PonowienieDoPisarza ==
    ( /\ PoRecenzji
      /\ stan.ocena_jakosci.wynik_ogolny < PROG_JAKOSCI
      /\ stan.iteracja < MAKS_PONOWNYCH_PROB )
        => wezel = "pisarz_scenariuszy"

C3_Swiadek ==
    /\ PoRecenzji
    /\ stan.ocena_jakosci.wynik_ogolny < PROG_JAKOSCI
    /\ stan.iteracja = MAKS_PONOWNYCH_PROB - 1
    /\ wezel = "pisarz_scenariuszy"

\* C4 (as claimed): at termination koszt_calkowity_usd equals the sum of the
\* cost deltas reported by every step invoked, each counted once.
C4_KosztSumaDelt ==
    Zakonczony => stan.koszt_calkowity_usd = sumaDelt
\* error records a branch result contributes to the fan-in
BledyGalezi(w) ==
    IF "wyjatek" \in DOMAIN w THEN <<w.wyjatek>>
    ELSE IF "bledy" \in DOMAIN w THEN w.bledy
    ELSE <<>>

\* the fan-in of producja_rownolegle has just been merged into stan
PoScaleniu == ostatni = "produkcja_rownolegla"

\* C5: after the fan-in of the two branches with M of them failed, stan holds
\* the outputs of exactly the successful branches (a failed branch leaves its
\* field as it was), exactly M new error records in declared branch order,
\* and the next node is recenzent_jakosci, also when both branches failed.
C5_ScalenieGalezi ==
    PoScaleniu =>
        LET M == Cardinality({i \in 1..2 : Nieudany(wyniki[i])})
        IN  /\ Len(stan.bledy) = Len(poprz.bledy) + M
            /\ stan.bledy = poprz.bledy \o BledyGalezi(wyniki[1]) \o BledyGalezi(wyniki[2])
            /\ stan.audio = (IF Nieudany(wyniki[1]) THEN poprz.audio ELSE wyniki[1].audio)
            /\ stan.wizualia = (IF Nieudany(wyniki[2]) THEN poprz.wizualia
                                ELSE wyniki[2].wizualia)
            /\ wezel = "recenzent_jakosci"

C5_Swiadek ==
    /\ PoScaleniu
    /\ "wyjatek" \in DOMAIN wyniki[1]
    /\ ~Nieudany(wyniki[2])
    /\ ~stan.audio
    /\ stan.wizualia.jest
    /\ Len(stan.bledy) = 1
    /\ wezel = "recenzent_jakosci"

\* the first k reviews are the ones below the threshold except the k-th
PierwszaZgodaW(k) ==
    /\ Len(oceny) = k
    /\ oceny[k] >= PROG_JAKOSCI
    /\ \A j \in 1..(k - 1) : oceny[j] < PROG_JAKOSCI

\* C6: when every step succeeds and the k-th review is the first with
\* wynik_ogolny >= PROG_JAKOSCI, 1 <= k <= MAKS_PONOWNYCH_PROB, the run ends
\* after the compositor with a video, iteracja = k and no error records.
C6_SukcesWKtejProbie ==
    \A k \in 1..MAKS_PONOWNYCH_PROB :
        (Zakonczony /\ awarie = 0 /\ PierwszaZgodaW(k))
            => /\ ostatni = "compositor"
               /\ stan.wideo
               /\ stan.iteracja = k
               /\ stan.bledy = <<>>

C6_Swiadek ==
    /\ Zakonczony
    /\ awarie = 0
    /\ PierwszaZgodaW(MAKS_PONOWNYCH_PROB)
    /\ stan.wideo
    /\ stan.iteracja = MAKS_PONOWNYCH_PROB

\* the first MAKS_PONOWNYCH_PROB reviews all scored below the threshold
SameOdrzucenia ==
    /\ Len(oceny) >= MAKS_PONOWNYCH_PROB
    /\ \A j \in 1..MAKS_PONOWNYCH_PROB : oceny[j] < PROG_JAKOSCI

\* C7 (as claimed): after MAKS_PONOWNYCH_PROB consecutive reviews below the
\* threshold the run ends at koniec_z_bledem with iteracja =
\* MAKS_PONOWNYCH_PROB and one error record per failed gate.  Stated for the
\* runs in which no step failed, where the gates are the only source of
\* records.
C7_BladNaKazdaBramke ==
    (Zakonczony /\ SameOdrzucenia /\ awarie = 0)
        => /\ ostatni = "koniec_z_bledem"
           /\ stan.iteracja = MAKS_PONOWNYCH_PROB
           /\ Len(stan.bledy) = MAKS_PONOWNYCH_PROB

\* C7 (amended): after MAKS_PONOWNYCH_PROB consecutive reviews below the
\* threshold the run ends at koniec_z_bledem with iteracja =
\* MAKS_PONOWNYCH_PROB; a failed gate adds no error record, bledy holds one
\* record per failed step invocation only.
C7_KoniecBezBledowBramki ==
    (Zakonczony /\ SameOdrzucenia)
        => /\ ostatni = "koniec_z_bledem"
           /\ stan.iteracja = MAKS_PONOWNYCH_PROB
           /\ Len(stan.bledy) = awarie

C7_Swiadek ==
    /\ Zakonczony
    /\ SameOdrzucenia
    /\ ostatni = "koniec_z_bledem"
    /\ awarie = 0
    /\ stan.bledy = <<>>

\* C8: a review with wynik_ogolny >= PROG_JAKOSCI, equality included, is
\* marked approved and routed to the compositor.
C8_RownoscToAkceptacja ==
    (PoRecenzji /\ stan.ocena_jakosci.wynik_ogolny >= PROG_JAKOSCI)
        => /\ stan.ocena_jakosci.zatwierdzone
           /\ wezel = "compositor"

C8_Swiadek ==
    /\ PoRecenzji
    /\ stan.ocena_jakosci.wynik_ogolny = PROG_JAKOSCI
    /\ stan.ocena_jakosci.zatwierdzone
    /\ wezel = "compositor"

\* the reviewer was entered without a script, audio or visuals
BrakSkladnikow(s) == ~(s.scenariusz /\ s.audio /\ s.wizualia.jest)

\* C9 (as claimed): at every routing decision a missing upstream output (no
\* plan after the strategist; no script, audio or visuals at the quality
\* gate) leads to koniec_z_bledem and leaves iteracja as it was.
C9_BrakProwadziDoKonca ==
    /\ (ostatni = "strateg_tresci" /\ ~stan.plan_tresci)
          => (wezel = "koniec_z_bledem" /\ stan.iteracja = poprz.iteracja)
    /\ (PoRecenzji /\ BrakSkladnikow(poprz))
          => (wezel = "koniec_z_bledem" /\ stan.iteracja = poprz.iteracja)

\* C9 (amended): a missing plan after the strategist leads to
\* koniec_z_bledem with iteracja unchanged; a missing script, audio or
\* visuals at the quality gate makes the reviewer approve with the default
\* score 65 and add one to iteracja, and the router goes to compositor.
C9_BrakPlanuKoniecBrakSkladnikowZgoda ==
    /\ (ostatni = "strateg_tresci" /\ ~stan.plan_tresci)
          => (wezel = "koniec_z_bledem" /\ stan.iteracja = poprz.iteracja)
    /\ (PoRecenzji /\ BrakSkladnikow(poprz))
          => /\ wezel = "compositor"
             /\ stan.iteracja = poprz.iteracja + 1
             /\ stan.ocena_jakosci =
                    [jest |-> TRUE, wynik_ogolny |-> 65, zatwierdzone |-> TRUE]

C9_Swiadek ==
    /\ ostatni = "strateg_tresci"
    /\ ~stan.plan_tresci
    /\ wezel = "koniec_z_bledem"
    /\ stan.iteracja = 0

\* C10 (as claimed): an exception raised inside a step never leaves the
\* engine; the run goes on to a terminal node with the failure in bledy.
C10_WyjatekNieUcieka ==
    wezel # "wyjatek"

\* nodes of zbuduj_graf_nexus with an edge to END
WezlyKoncowe == {"compositor", "koniec_z_bledem"}

\* C11 (as claimed): no execution stops in a non-terminal node: whenever
\* the engine has stopped, the node it ran last is a terminal node.
C11_StopTylkoWKoncowym ==
    wezel \in {"END", "wyjatek"} => ostatni \in WezlyKoncowe

\* a is a prefix of b
Prefiks(a, b) == Len(a) <= Len(b) /\ SubSeq(b, 1, Len(a)) = a

\* C13: bledy is append-only: across every step of the engine the previous
\* error list is a prefix of the new one.
C13_BledyTylkoDopisywane ==
    [][Prefiks(stan.bledy, stan'.bledy)]_vars

\* the fan-in appended two records behind the errors recorded before it
C13_Swiadek ==
    /\ PoScaleniu
    /\ Len(poprz.bledy) >= 1
    /\ Len(stan.bledy) = Len(poprz.bledy) + 2
    /\ Prefiks(poprz.bledy, stan.bledy)

\* C14: koszt_calkowity_usd is never negative and never decreases across a
\* node transition, and the deltas the steps report are never negative.
C14_KosztNieMaleje ==
    /\ [](stan.koszt_calkowity_usd >= 0)
    /\ [][ /\ stan'.koszt_calkowity_usd >= stan.koszt_calkowity_usd
           /\ sumaDelt' >= sumaDelt ]_vars

\* the fan-in raised the total although one branch failed
C14_Swiadek ==
    /\ PoScaleniu
    /\ "wyjatek" \in DOMAIN wyniki[1]
    /\ poprz.koszt_calkowity_usd > 0
    /\ stan.koszt_calkowity_usd > poprz.koszt_calkowity_usd

\* C12 (as claimed): a task that starts again after an interruption resumes
\* from the checkpoint the interrupted attempt had reached: iteracja is the
\* one of that checkpoint and the entry node is not run a second time.
C12_WznowienieOdPunktu ==
    [][ ( /\ zadanie \in {"RETRY", "PENDING"}
          /\ zadanie' \in {"PROGRESS", "EXCEPT"}
          /\ punkt.iteracja > 0 )
        => ( /\ stan'.iteracja = punkt.iteracja
             /\ wezel' # "strateg_tresci" ) ]_vars

\* C15 (as claimed): a session cancelled after a node transition has gone
\* to a terminal node: the node it ran last is one.
C15_AnulowaneWKoncowym ==
    (zadanie = "REVOKED" /\ punkt.wezel # "START") => punkt.wezel \in WezlyKoncowe

\* C16 (as claimed): a session stopped by the time limit is a terminal
\* failure, not a restart, and its reported result carries the accumulated
\* cost and errors.
C16_LimitZachowujeWynik ==
    (powod = "limit" /\ punkt.koszt > 0 /\ punkt.bledy # <<>>) =>
        /\ zadanie = "FAILURE"
        /\ "koszt_usd" \in DOMAIN wynik
        /\ wynik.koszt_usd = punkt.koszt
        /\ wynik.bledy = punkt.bledy

\* C17 (as claimed): a failure of the progress sink is fatal: a session in
\* which a publish or save failed never completes successfully.
C17_AwariaKanaluZatrzymuje ==
    awarieKanalu > 0 => zadanie # "SUCCESS"

\* C18 (as claimed): every node the engine has executed produced an event
\* naming it: while Redis works, the event published last names the node
\* that returned last.
C18_ZdarzenieNaWezel ==
    ( /\ zadanie = "PROGRESS"
      /\ ostatni # "START"
      /\ wezel # "wyjatek"
      /\ awarieKanalu = 0 )
        => kanal.krok = ostatni

\* C19 (as claimed): a handler that read the stored state and then subscribed
\* has forwarded the latest event: once the session has succeeded, the event
\* it sent last is the final one.
C19_PoznyObserwatorNadaza ==
    ( /\ zadanie = "SUCCESS"
      /\ obs = "subskrybuje"
      /\ awarieKanalu = 0 )
        => obsStan = kanal

\* C20: two sessions with different ids running on the same orchestrator are
\* independent: the checkpoint of each session's thread is at every moment the
\* one the session would have running alone, the result returned to it is the
\* result of its own final state, and its directory holds only its own files.
C20_SesjeNiezalezne ==
    \A id \in Sesje :
        /\ pamiec[thread_id(id)] = solo[id]
        /\ zwrocone[id].status # "brak" =>
               zwrocone[id] = generuj_wideo(solo[id].stan, solo[id].wezel)
        /\ katalogi[Katalog(id)] \in {"brak", id}

\* both sessions ran interleaved to the end with different results
C20_Swiadek ==
    /\ zwrocone["s1"].status # "brak"
    /\ zwrocone["s2"].status # "brak"
    /\ zwrocone["s1"] # zwrocone["s2"]
    /\ katalogi["s1"] = "s1"
    /\ katalogi["s2"] = "s2"

\* C21: the fan-in is applied in declared branch order, the voice director's
\* result first and the visual producer's second: whichever branch finished
\* first, the state after the merge is the state before it updated with the
\* two results folded in that order (outputs, krok_aktualny, errors, cost).
C21_ScalenieWKolejnosciDeklaracji ==
    PoScaleniu =>
        /\ stan = Zastosuj(poprz, ScalWynik(ScalWynik(<<>>, wyniki[1]), wyniki[2]))
        /\ stan.bledy = poprz.bledy \o BledyGalezi(wyniki[1]) \o BledyGalezi(wyniki[2])

\* the visual producer finished first, both branches failed, and the voice
\* director's record still precedes the producer's
C21_Swiadek ==
    /\ PoScaleniu
    /\ kolejnosc = <<2, 1>>
    /\ Nieudany(wyniki[1])
    /\ Nieudany(wyniki[2])
    /\ BledyGalezi(wyniki[1]) # BledyGalezi(wyniki[2])
    /\ stan.bledy = poprz.bledy \o BledyGalezi(wyniki[1]) \o BledyGalezi(wyniki[2])

\* C22: the coordinator never fails fast: when the fan-in has been merged
\* and the engine has moved on, both branches have finished and each has
\* handed in its result, also when the branch that finished first failed.
C22_BezSzybkiejPorazki ==
    PoScaleniu =>
        /\ Len(kolejnosc) = 2
        /\ \A i \in 1..2 : wyniki[i] # Oczekuje
        /\ ~Nieudany(wyniki[2]) => stan.wizualia = wyniki[2].wizualia
        /\ ~Nieudany(wyniki[1]) => stan.audio = wyniki[1].audio

\* the voice director failed first; the producer still ran and its visuals
\* were merged
C22_Swiadek ==
    /\ PoScaleniu
    /\ kolejnosc = <<1, 2>>
    /\ Nieudany(wyniki[1])
    /\ ~Nieudany(wyniki[2])
    /\ stan.wizualia.jest
    /\ wezel = "recenzent_jakosci"

\* C23 (as claimed): the fan-in merge is idempotent: merging the same branch
\* results a second time into the state that already holds them changes
\* nothing (no duplicated error record, no doubled cost).
C23_ScalenieIdempotentne ==
    PoScaleniu => Zastosuj(stan, producja_rownolegle(wyniki)) = stan

\* the step-output fields of StanNEXUS
Wyjscia(s) ==
    << s.plan_tresci, s.scenariusz, s.audio, s.wizualia, s.ocena_jakosci, s.wideo >>

\* nodes that run one step (the fan-out node runs two)
WezlyPojedyncze ==
    {"strateg_tresci", "pisarz_scenariuszy", "recenzent_jakosci", "compositor"}

\* C24 (as claimed): a step whose implementation failed and was caught has
\* contributed exactly one new error record and has set or overwritten no
\* step-output field.
C24_NieudanyKrokBezWyjsc ==
    ( /\ ostatni \in WezlyPojedyncze
      /\ wezel # "wyjatek"
      /\ stan.bledy # poprz.bledy )
        => /\ Len(stan.bledy) = Len(poprz.bledy) + 1
           /\ Wyjscia(stan) = Wyjscia(poprz)

\* a node other than the fan-out node ran in this step
KrokWezla(nazwa) == wezel = nazwa /\ ostatni' = nazwa /\ wezel' # nazwa

\* C25 (as claimed): iteracja is incremented by exactly one at every entry
\* of the retry-entry node pisarz_scenariuszy and is changed by no other node.
C25_PrzyrostPrzyWejsciu ==
    [][ stan'.iteracja = stan.iteracja +
            (IF KrokWezla("pisarz_scenariuszy") THEN 1 ELSE 0) ]_vars

\* C25 (amended): iteracja never decreases and changes only by one, in the
\* step in which recenzent_jakosci returns its review; every returned review
\* adds one, so iteracja is the number of reviews returned, and the writer
\* leaves it as it was.
C25_PrzyrostPrzyRecenzji ==
    /\ [](stan.iteracja = Len(oceny))
    /\ [][ /\ stan'.iteracja >= stan.iteracja
           /\ stan'.iteracja # stan.iteracja =>
                 /\ stan'.iteracja = stan.iteracja + 1
                 /\ KrokWezla("recenzent_jakosci")
           /\ KrokWezla("pisarz_scenariuszy") => stan'.iteracja = stan.iteracja ]_vars

\* the writer was entered for the second time and the count is still the one
\* the first review left
C25_Swiadek ==
    /\ ostatni = "pisarz_scenariuszy"
    /\ Len(oceny) = 1
    /\ stan.iteracja = 1
    /\ poprz.iteracja = 1

\* nodes after which the checkpoint is at a join point: the fan-in, the
\* retry decision behind the reviewer, the terminal nodes
PunktyZlaczenia ==
    {"produkcja_rownolegla", "recenzent_jakosci", "compositor", "koniec_z_bledem"}

\* C26 (as claimed): a checkpoint is committed only at a join point: after a
\* fan-in, after a retry decision or at a terminal node.
C26_MigawkaTylkoWZlaczeniu ==
    [][ migawka' # migawka => ostatni' \in PunktyZlaczenia ]_vars

\* C26 (amended): a checkpoint is committed when a node of the graph has
\* returned, the strategist and the writer included, and holds the state
\* that node left; none is committed while branches of the fan-out are in
\* flight, so the stored checkpoint never holds the output of a branch that
\* has not been merged with the other.
C26_MigawkaPoKazdymWezle ==
    /\ [](migawka.stan = stan)
    /\ [][ migawka' # migawka =>
             /\ galezie' # "uruchomione"
             /\ wezel' \notin {wezel, "wyjatek"}
             /\ migawka' = [stan |-> stan', wezel |-> wezel'] ]_vars
    /\ [][ (galezie = "uruchomione" /\ galezie' = "uruchomione")
               => migawka' = migawka ]_vars

\* the voice director has finished with audio, the producer is still
\* running, and the checkpoint is the one the writer left
C26_Swiadek ==
    /\ galezie = "uruchomione"
    /\ wyniki[1] # Oczekuje
    /\ "audio" \in DOMAIN wyniki[1]
    /\ wyniki[2] = Oczekuje
    /\ migawka = [stan |-> stan, wezel |-> "produkcja_rownolegla"]
    /\ ~migawka.stan.audio
    /\ ostatni = "pisarz_scenariuszy"

\* C27: the retry edge from the reviewer to the writer is taken only when
\* the reviewer completed its evaluation of a complete project with a score
\* below PROG_JAKOSCI: not when script, audio or visuals were missing, and
\* not when the reviewer itself failed.
C27_PonowienieTylkoPoNiskiejOcenie ==
    (PoRecenzji /\ wezel = "pisarz_scenariuszy")
        => /\ stan.ocena_jakosci.wynik_ogolny < PROG_JAKOSCI
           /\ ~stan.ocena_jakosci.zatwierdzone
           /\ ~BrakSkladnikow(poprz)
           /\ stan.bledy = poprz.bledy
           /\ stan.iteracja < MAKS_PONOWNYCH_PROB

\* a retry in a session in which steps had failed: the score, not the
\* failures, caused it
C27_Swiadek ==
    /\ PoRecenzji
    /\ wezel = "pisarz_scenariuszy"
    /\ stan.bledy # <<>>
    /\ stan.bledy = poprz.bledy
    /\ stan.ocena_jakosci.wynik_ogolny < PROG_JAKOSCI

\* generuj_wideo has returned
Zwrocono == wynik.status # "brak"

\* C28: a result with status "sukces" is returned only when the compositor
\* ran last, after an approved most recent review, and left a video; a
\* session that ended at koniec_z_bledem never reports "sukces" and has no
\* video.
C28_SukcesTylkoPoCompositorze ==
    /\ (Zwrocono /\ wynik.status = "sukces")
          => /\ ostatni = "compositor"
             /\ wezel = "END"
             /\ stan.ocena_jakosci.jest
             /\ stan.ocena_jakosci.zatwierdzone
             /\ stan.wideo
             /\ wynik.wideo
    /\ ostatni = "koniec_z_bledem" => ~stan.wideo
    /\ (Zwrocono /\ ostatni = "koniec_z_bledem") => wynik.status # "sukces"

\* a session gave up after MAKS_PONOWNYCH_PROB rejected reviews and reported
\* a partial result without a video
C28_Swiadek ==
    /\ Zwrocono
    /\ ostatni = "koniec_z_bledem"
    /\ stan.iteracja = MAKS_PONOWNYCH_PROB
    /\ wynik.status = "czesciowy"
    /\ ~wynik.wideo

\* C29 (as claimed): the event "gotowe" with 100 percent is published only
\* for a session whose final state contains a video.
C29_GotoweTylkoZWideo ==
    (kanal.krok = "gotowe" /\ zadanie = "SUCCESS") => stan.wideo

\* C30 (as claimed): once a terminal event ("gotowe" or "blad") has been
\* published for the session, no further event is published for it.
C30_PoKoncowymCisza ==
    [][ kanal.krok \in {"gotowe", "blad"} => kanal' = kanal ]_vars

====
